---- MODULE Spec2Model ----
(***************************************************************************)
(* A state-machine model of the hart execution core of riscv64-emu-rust:   *)
(* CpuCore::execute and the functions it calls (src/src/cpu_core.rs) and   *)
(* the Zicsr / privileged instruction handlers (src/src/inst_rv64z.rs).    *)
(*                                                                         *)
(* Representation.                                                         *)
(*  - A bit-vector CSR whose bits are only tested, and-ed or complemented  *)
(*    (medeleg, mideleg, mip, mie) is the set of its set bit positions.    *)
(*  - mstatus is the record of the fields the hart reads and writes.       *)
(*  - A cause register is the pair (interrupt, code): interrupt is bit 63. *)
(*  - A trap vector register is the pair (base, mode).                     *)
(*  - One iteration of the loop of execute is cut at its calls:            *)
(*      loop --FetchExec--> ret --HandleExceptions--------------> loop     *)
(*                          ret --CheckPendingInt--> int                   *)
(*                              --HandleInterrupt--> upd --BusUpdate-> loop*)
(*  - A 64-bit value that comes within reach of 2^64 is represented       *)
(*    modulo 2^64 by the integer nearest 0: -k stands for 2^64 - k.        *)
(*    The hart is borrowed mutably for the whole call, so operations of    *)
(*    the embedding program happen only between calls (phase "idle").      *)
(***************************************************************************)
EXTENDS Integers, Sequences, FiniteSets, TLC

\* ------------------------------------------------------------------ bounds
\* The cycle counter is capped: at most MaxCycle iterations are modelled.
MaxCycle == 3
\* execute(n) is called with n in 0..MaxNum.
MaxNum == 2
\* The longest program of hart 0, and of the other hart, in the two-hart
\* system.
MaxProg == 3
MaxOtherProg == 1
\* The number of stores to tohost of the guest hart in the polled system.
MaxHostProg == 2

\* --------------------------------------------------------------- constants
\* PrivilegeLevels (inst_base): User=0, Supervisor=1, Machine=3.
User == 0
Supervisor == 1
Machine == 3
PrivilegeLevels == {User, Supervisor, Machine}

\* TrapType exception numbers (traptype).
InstructionAccessFault == 1
IllegalInstructionNum == 2
EnvironmentCallFromUMode == 8
EnvironmentCallFromSMode == 9
EnvironmentCallFromMMode == 11

\* Interrupt numbers (bit positions of mip/mie/mideleg).
SupervisorSoftInt == 1
MachineSoftInt == 3
SupervisorTimerInt == 5
MachineTimerInt == 7
SupervisorExternalInt == 9
MachineExternalInt == 11

\* GPR indices: x0 and a0 (x10, the register read_by_name("a0") reads).
X0 == 0
A0 == 10
Regs == {X0, A0}

\* CSR addresses reached by the CSR instructions of the model.
CSR_MSCRATCH == 832
CSR_MHARTID == 3860

\* The hart id CpuCoreBuild::new sets.
HartId == 0

\* ------------------------------------------------------------ value domains
\* The boot pc given to with_boot_pc.
BootPcs == {4096}
\* Physical addresses LR/SC reserve.
ResAddrs == {8192, 8200}
\* The raw bits of a word the decoder has no entry for.
UndefWords == {65535}
\* mtimecmp as programmed before the run: due at the first tick, or never
\* within the run.
MtimecmpVals == {1, 1000}
\* The delegation and enable registers as programmed before the run.
MedelegVals == {{EnvironmentCallFromUMode}, {EnvironmentCallFromMMode}}
MidelegVals == {{}, {SupervisorTimerInt}}
XieVals == {{MachineTimerInt}, {SupervisorTimerInt, MachineTimerInt}}
XipVals == {{}, {SupervisorTimerInt}}
MtvecVals == {[base |-> 256, mode |-> 1]}
StvecVals == {[base |-> 512, mode |-> 0]}
\* Register values given to set_regs.
RegVals == {0, 1}
\* 8-byte words the guest stores to tohost, as bits 63:48 (hi) and 47:0 (lo):
\* nothing, exit code 0, exit code 1, a syscall that is no exit, and a
\* character written to device 1 with command 1.
TohostZero == [hi |-> 0, lo |-> 0]
TohostVals == {TohostZero, [hi |-> 0, lo |-> 1], [hi |-> 0, lo |-> 3],
               [hi |-> 0, lo |-> 2], [hi |-> 257, lo |-> 65]}

VARIABLES
    cpu_state,   \* CpuCore.cpu_state: "Running", "Stop", "Abort"
    pc, npc,     \* CpuCore.pc, CpuCore.npc
    cur_priv,    \* CpuCore.cur_priv
    gpr,         \* CpuCore.gpr: Regs -> value
    xstatus,     \* csr_regs.xstatus (mstatus)
    medeleg, mideleg, xie, xip,
    mepc, mcause, mtval, mtvec,
    sepc, scause, stval, stvec,
    mscratch,
    cycle, instret,
    lr_sc_set,   \* the shared LrScReservation: <<>> (none) or <<addr>>
    mtime, mtimecmp,   \* CLINT
    phase,       \* where the hart is in execute: idle, loop, ret, int, upd
    num, iter,   \* execute's argument and its loop counter
    inst,        \* the instruction of the current iteration (fetch_ret)
    exe_ret,     \* the local exe_ret of the current iteration
    csr_write_invoked, \* csr_regs.write was called in this iteration
    halt_ret,    \* the value halt returned in this iteration
    int_taken,   \* the branch handle_interrupt took in this iteration
    image,       \* the instruction words the loaded binary holds
    tohost,      \* the 8-byte word at 0x8000_1000
    host_data,   \* the local data of the last check_to_host
    mem,         \* the DRAM words at the addresses LR/SC/SD use
    thr,         \* harts run in threads of their own on the shared bus
    bus_lock,    \* the hart holding the mutex of the shared bus: <<>> or <<h>>
    overflow_checks \* the build panics on integer overflow (dev profile)

hart == <<cpu_state, pc, npc, cur_priv, gpr>>
trapcsrs == <<xstatus, mepc, mcause, mtval, sepc, scause, stval>>
cfgcsrs == <<medeleg, mideleg, xie, mtvec, stvec, mtimecmp, image,
             overflow_checks>>
counters == <<cycle, instret>>
platform == <<xip, lr_sc_set, mtime>>
control == <<phase, num, iter>>
locals == <<inst, exe_ret, csr_write_invoked, halt_ret, int_taken>>
host == <<tohost, host_data>>
smp == <<mem, thr, bus_lock>>
vars == <<hart, trapcsrs, cfgcsrs, mscratch, counters, platform, control, locals,
          host, smp>>

\* ----------------------------------------------------------------- values
NoInst == [op |-> "none"]
NoRet == [tag |-> "None"]
OkRet == [tag |-> "Ok"]
ErrRet(trap) == [tag |-> "Err", trap |-> trap]
NoHalt == <<>>
NoReservation == <<>>

\* TrapType values: an exception carries its number and its tval.
Exception(n, tval) == [interrupt |-> FALSE, num |-> n, tval |-> tval]
Interrupt(n) == [interrupt |-> TRUE, num |-> n, tval |-> 0]

\* TrapType::get_exception_num, TrapType::get_tval, TrapType::idx
get_exception_num(trap) == trap.num
get_tval(trap) == trap.tval
idx(trap) == [interrupt |-> trap.interrupt, code |-> trap.num]

\* mtvec/stvec get_trap_pc: direct => base; vectored, interrupts only =>
\* base + 4 * cause.
get_trap_pc(tvec, trap) ==
    IF tvec.mode = 1 /\ trap.interrupt THEN tvec.base + 4 * trap.num
    ELSE tvec.base

\* XipIn::get_priority_interupt: MEI, MSI, MTI, SEI, SSI, STI.
get_priority_interupt(pending) ==
    IF MachineExternalInt \in pending THEN Interrupt(MachineExternalInt)
    ELSE IF MachineSoftInt \in pending THEN Interrupt(MachineSoftInt)
    ELSE IF MachineTimerInt \in pending THEN Interrupt(MachineTimerInt)
    ELSE IF SupervisorExternalInt \in pending THEN Interrupt(SupervisorExternalInt)
    ELSE IF SupervisorSoftInt \in pending THEN Interrupt(SupervisorSoftInt)
    ELSE Interrupt(SupervisorTimerInt)

\* Bitwise and / or of two naturals.
RECURSIVE BitAnd(_, _)
BitAnd(a, b) ==
    IF a = 0 \/ b = 0 THEN 0
    ELSE (a % 2) * (b % 2) + 2 * BitAnd(a \div 2, b \div 2)
BitOr(a, b) == a + b - BitAnd(a, b)
\* t & !m
BitClear(t, m) == t - BitAnd(t, m)

\* Gpr::read / Gpr::write: x0 reads 0 and drops writes.
gpr_read(g, r) == IF r = X0 THEN 0 ELSE g[r]
gpr_write(g, r, v) == IF r = X0 THEN g ELSE [g EXCEPT ![r] = v]

\* ------------------------------------------------------------------ Init
\* Decoded instruction words.
CsrForm(name, c, rs1, rd) == [op |-> name, csr |-> c, rs1 |-> rs1, rd |-> rd]
CsrNames == {"CSRRC", "CSRRS", "CSRRW", "CSRRCI", "CSRRSI", "CSRRWI"}
CsrOperands == {<<CSR_MSCRATCH, X0, A0>>, <<CSR_MSCRATCH, A0, A0>>,
                <<CSR_MSCRATCH, A0, X0>>, <<CSR_MHARTID, A0, A0>>}
Op(name) == [op |-> name]
Undef(raw) == [op |-> "UNDEF", raw |-> raw]
Lr(addr) == [op |-> "LR", addr |-> addr]
Sc(addr) == [op |-> "SC", addr |-> addr]
\* An address of the binary that no device backs: its fetch faults.
Unmapped == [op |-> "FAULT"]
\* SD of a word to the tohost address.
SdToHost(data) == [op |-> "SD_TOHOST", data |-> data]

\* The binaries the hart runs: privileged code, LR/SC code, Zicsr code.
PrivImage ==
    {Op("EBREAK"), Op("ECALL"), Op("MRET"), Op("SRET"), Op("FENCE"), Unmapped}
        \cup {Undef(raw) : raw \in UndefWords}
AtomicImage ==
    {Op("EBREAK"), Op("ECALL"), Op("FENCE_I")}
        \cup {Lr(a) : a \in ResAddrs} \cup {Sc(a) : a \in ResAddrs}
CsrImage ==
    {Op("SRET")}
        \cup {CsrForm(n, o[1], o[2], o[3]) : n \in CsrNames, o \in CsrOperands}
IntImage ==
    {Op("SRET"), Op("ECALL"), Op("FENCE")}
        \cup {Undef(raw) : raw \in UndefWords}
\* The binaries run under the harness that drives the hart through Difftest.
DifftestImages == {CsrImage, IntImage}
HostImage ==
    {Op("EBREAK"), Op("FENCE")} \cup {SdToHost(d) : d \in TohostVals}

\* The hart as CpuCoreBuild::build leaves it, not yet started.
MstatusReset == [sie |-> FALSE, mie |-> FALSE, spie |-> FALSE, mpie |-> FALSE,
                 spp |-> 0, mpp |-> 0]

Built ==
    /\ cpu_state = "Stop"
    /\ \E b \in BootPcs : pc = b /\ npc = b
    /\ cur_priv = Machine
    /\ gpr = [r \in Regs |-> 0]
    /\ mtvec \in MtvecVals
    /\ stvec \in StvecVals
    /\ mepc = 0 /\ mtval = 0 /\ sepc = 0 /\ stval = 0
    /\ mcause = [interrupt |-> FALSE, code |-> 0]
    /\ scause = [interrupt |-> FALSE, code |-> 0]
    /\ mscratch = 0
    /\ cycle = 0 /\ instret = 0
    /\ lr_sc_set = NoReservation
    /\ mtime = 0
    /\ phase = "idle" /\ num = 0 /\ iter = 0
    /\ inst = NoInst /\ exe_ret = NoRet
    /\ csr_write_invoked = FALSE
    /\ halt_ret = NoHalt
    /\ int_taken = "none"
    /\ tohost = TohostZero
    /\ host_data = <<>>
    /\ mem = [a \in ResAddrs |-> 0]
    /\ bus_lock = <<>>

\* The harts built on one bus, and the thread of one of them: its program,
\* the index of its next instruction, whether it is inside SC between the
\* reservation check and the write, and the rd of its last SC.
Harts == {0, 1}
Thread(prog) == [prog |-> prog, at |-> 1, mid |-> FALSE, rd |-> <<>>]

\* mstatus.MIE, SPIE and SPP as programmed before the run (SRET then gives
\* SIE and the privilege).
MstatusVals(mies, spies, spps) ==
    {[MstatusReset EXCEPT !.mie = m, !.spie = s, !.spp = p] :
        m \in mies, s \in spies, p \in spps}

\* The built hart, its binary loaded and its delegation, enable and timer
\* registers programmed.
Init ==
    /\ Built
    /\ overflow_checks = FALSE
    /\ thr = [h \in Harts |-> Thread(<<>>)]
    /\ \/ /\ image = PrivImage
          /\ xstatus \in MstatusVals(BOOLEAN, BOOLEAN, {0, 1})
          /\ medeleg \in MedelegVals
          /\ mideleg \in MidelegVals
          /\ xie \in XieVals
          /\ xip \in XipVals
          /\ mtimecmp \in MtimecmpVals
       \/ /\ image = AtomicImage
          /\ xstatus \in MstatusVals(BOOLEAN, {FALSE}, {0})
          /\ medeleg = {}
          /\ mideleg = {}
          /\ xie = {MachineTimerInt}
          /\ xip = {}
          /\ mtimecmp \in MtimecmpVals
       \/ /\ image = IntImage
          /\ xstatus \in MstatusVals(BOOLEAN, {FALSE}, {0})
          /\ medeleg = {IllegalInstructionNum, EnvironmentCallFromMMode}
          /\ mideleg \in MidelegVals
          /\ xie = {SupervisorTimerInt, MachineTimerInt}
          /\ xip = {}
          /\ mtimecmp = 1000
       \/ /\ image \in {CsrImage, HostImage}
          /\ xstatus \in MstatusVals({FALSE}, {FALSE}, {0, 1})
          /\ medeleg = {}
          /\ mideleg = {}
          /\ xie = {}
          /\ xip = {}
          /\ mtimecmp = 1000

\* ------------------------------------------------------------- CSR file
\* The privilege a CSR address requires (bits 9:8) and whether it is
\* read-only (bits 11:10 = 3).
csr_required_priv(c) == (c \div 256) % 4
csr_read_only(c) == (c \div 1024) % 4 = 3

\* CsrRegs::read: the value of the CSR.
csr_read(c) == IF c = CSR_MSCRATCH THEN mscratch ELSE HartId

\* CsrRegs::write: rejected when the privilege is too low or the CSR is
\* read-only; otherwise the masked write (mscratch: every bit writable).
csr_write_rejected(c) == cur_priv < csr_required_priv(c) \/ csr_read_only(c)
csr_write(c, v) ==
    IF c = CSR_MSCRATCH /\ ~csr_write_rejected(c) THEN v ELSE mscratch

\* ------------------------------------------------- execute: the loop frame
\* execute(num): the embedding program calls it between two calls.
Execute(n) ==
    /\ phase = "idle"
    /\ phase' = "loop" /\ num' = n /\ iter' = 0
    /\ host_data' = <<>>
    /\ UNCHANGED <<smp, hart, trapcsrs, cfgcsrs, mscratch, counters, platform, locals,
                   tohost>>

\* The for loop is exhausted, or the match on cpu_state breaks out of it.
LoopEnd ==
    /\ phase = "loop"
    /\ iter = num \/ cpu_state # "Running"
    /\ phase' = "idle" /\ num' = 0 /\ iter' = 0
    /\ UNCHANGED <<smp, host, hart, trapcsrs, cfgcsrs, mscratch, counters, platform,
                   locals>>

\* cpu.cpu_state = CpuState::Running, as the embedding program starts the hart.
SetRunning ==
    /\ phase = "idle"
    /\ cpu_state # "Running"
    /\ cpu_state' = "Running"
    /\ UNCHANGED <<smp, host, pc, npc, cur_priv, gpr, trapcsrs, cfgcsrs, mscratch,
                   counters, platform, control, locals>>

\* Difftest::set_regs: gpr.write(idx, regs[idx]) for every index.
\* Variant: the register file is overwritten as a whole.
set_regs_raw(regs) == regs
set_regs(regs) == gpr_write(gpr_write(gpr, X0, regs[X0]), A0, regs[A0])

\* Difftest::set_csr(CSR_MIP, val): csr_regs.write_raw.
SetCsr(val) ==
    /\ phase = "idle"
    /\ image \in DifftestImages
    /\ xip' = val
    /\ UNCHANGED <<smp, host, hart, trapcsrs, cfgcsrs, mscratch, counters,
                   lr_sc_set, mtime, control, locals>>

SetRegs(regs) ==
    /\ phase = "idle"
    /\ image \in DifftestImages
    /\ gpr' = set_regs(regs)
    /\ UNCHANGED <<smp, host, cpu_state, pc, npc, cur_priv, trapcsrs, cfgcsrs,
                   mscratch, counters, platform, control, locals>>

\* The top of an iteration in the Running arm: the cycle increment,
\* inst_fetch's pc = npc, and the result of step (or the fetch fault).
\* Each instruction's action adds the handler's own effect, npc included
\* (inst_fetch's npc += 4, overwritten by a handler that sets npc).
\* Variant: the loop does not match on cpu_state.
CanFetch_any_state ==
    /\ phase = "loop"
    /\ iter < num
    /\ cycle < MaxCycle

\* x + d on u64 exceeds 2^64 - 1, and the build panics on it (the + and +=
\* of Rust: a panic with overflow checks, a wrap without).
add_overflows(x, d) == x < 0 /\ x + d >= 0
add_panics(x, d) == overflow_checks /\ add_overflows(x, d)

CanFetch ==
    /\ phase = "loop"
    /\ iter < num
    /\ cpu_state = "Running"
    /\ cycle < MaxCycle

Iteration(i, r) ==
    /\ CanFetch
    /\ ~add_panics(cycle, 1)
    /\ ~add_panics(npc, 4)
    /\ cycle' = cycle + 1
    /\ pc' = npc
    /\ inst' = i
    /\ exe_ret' = r
    /\ phase' = "ret"
    /\ int_taken' = "none"
    /\ UNCHANGED <<mepc, mcause, mtval, sepc, scause, stval, cfgcsrs, instret,
                   xip, mtime, num, iter>>

\* Variant: inst_fetch does not advance npc.
NextPc_not_advanced == npc

\* inst_fetch: self.npc += 4
NextPc == npc + 4

\* The read of inst_fetch fails: no instruction is stepped.
FetchFault ==
    /\ Iteration(NoInst, ErrRet(Exception(InstructionAccessFault, npc)))
    /\ npc' = NextPc
    /\ UNCHANGED <<smp, host, cpu_state, cur_priv, gpr, xstatus, mscratch, lr_sc_set,
                   csr_write_invoked, halt_ret>>

\* Variant: a decode miss aborts the hart.
StepUndef_abort(raw) ==
    /\ Iteration(Undef(raw), OkRet)
    /\ npc' = NextPc
    /\ cpu_state' = "Abort"
    /\ UNCHANGED <<smp, host, cur_priv, gpr, xstatus, mscratch, lr_sc_set,
                   csr_write_invoked, halt_ret>>

\* step: the decoder has no entry for the word.
StepUndef(raw) ==
    /\ Iteration(Undef(raw),
                 ErrRet(Exception(IllegalInstructionNum, raw)))
    /\ npc' = NextPc
    /\ UNCHANGED <<smp, host, cpu_state, cur_priv, gpr, xstatus, mscratch, lr_sc_set,
                   csr_write_invoked, halt_ret>>

\* ------------------------------------------------------ INSTRUCTIONS_Z
\* halt: reads a0, stops the hart, returns a0 as usize.
halt_value == gpr_read(gpr, A0)

\* Variant: a nonzero a0 aborts the hart instead of stopping it.
StepEbreak_abort_on_fail ==
    /\ Iteration(Op("EBREAK"), OkRet)
    /\ npc' = NextPc
    /\ cpu_state' = IF halt_value = 0 THEN "Stop" ELSE "Abort"
    /\ halt_ret' = <<halt_value>>
    /\ UNCHANGED <<smp, host, cur_priv, gpr, xstatus, mscratch, lr_sc_set,
                   csr_write_invoked>>

\* EBREAK: cpu.halt(); Ok(())
StepEbreak ==
    /\ Iteration(Op("EBREAK"), OkRet)
    /\ npc' = NextPc
    /\ cpu_state' = "Stop"
    /\ halt_ret' = <<halt_value>>
    /\ UNCHANGED <<smp, host, cur_priv, gpr, xstatus, mscratch, lr_sc_set,
                   csr_write_invoked>>

\* ECALL: Err(TrapType::EnvironmentCallFromMMode)
ecall_trap == Exception(EnvironmentCallFromMMode, 0)

StepEcall ==
    /\ Iteration(Op("ECALL"), ErrRet(ecall_trap))
    /\ npc' = NextPc
    /\ UNCHANGED <<smp, host, cpu_state, cur_priv, gpr, xstatus, mscratch, lr_sc_set,
                   csr_write_invoked, halt_ret>>

\* MRET: MIE <- MPIE, MPP <- 0, MPIE <- 1 on the raw mstatus; npc <- mepc.
\* Variant: MPIE is left as it was.
mret_mstatus_keep_mpie(m) == [m EXCEPT !.mie = m.mpie, !.mpp = 0]
mret_mstatus(m) == [m EXCEPT !.mie = m.mpie, !.mpp = 0, !.mpie = TRUE]
mret_priv == cur_priv

StepMret ==
    /\ Iteration(Op("MRET"), OkRet)
    /\ xstatus' = mret_mstatus(xstatus)
    /\ npc' = mepc
    /\ cur_priv' = mret_priv
    /\ UNCHANGED <<smp, host, cpu_state, gpr, mscratch, lr_sc_set, csr_write_invoked,
                   halt_ret>>

\* SRET: SIE <- SPIE, SPIE <- 1, privilege <- SPP, SPP <- User; npc <- sepc.
sret_mstatus(m) == [m EXCEPT !.sie = m.spie, !.spp = 0, !.spie = TRUE]
sret_priv(m) == IF m.spp = 0 THEN User ELSE Supervisor

StepSret ==
    /\ Iteration(Op("SRET"), OkRet)
    /\ xstatus' = sret_mstatus(xstatus)
    /\ npc' = sepc
    /\ cur_priv' = sret_priv(xstatus)
    /\ UNCHANGED <<smp, host, cpu_state, gpr, mscratch, lr_sc_set, csr_write_invoked,
                   halt_ret>>

\* FENCE and FENCE_I: Ok(())
StepFence(name) ==
    /\ Iteration(Op(name), OkRet)
    /\ npc' = NextPc
    /\ UNCHANGED <<smp, host, cpu_state, cur_priv, gpr, xstatus, mscratch, lr_sc_set,
                   csr_write_invoked, halt_ret>>

\* parse_format_csr gives f.csr, f.rs1 and f.rd; every handler reads the
\* CSR, calls csr_regs.write with the write-back value, writes t to rd and
\* returns Ok(()).
csr_wb_data(name, t, rs1) ==
    CASE name = "CSRRC" -> BitClear(t, gpr_read(gpr, rs1))
      [] name = "CSRRS" -> BitOr(t, gpr_read(gpr, rs1))
      [] name = "CSRRW" -> gpr_read(gpr, rs1)
      [] name = "CSRRCI" -> BitClear(t, rs1)
      [] name = "CSRRSI" -> BitOr(t, rs1)
      [] name = "CSRRWI" -> rs1

\* Whether the handler calls csr_regs.write.
csr_calls_write(name, rs1) == TRUE

\* The result the handler returns.
csr_result(name, c, rs1) == OkRet

StepCsr(name, c, rs1, rd) ==
    /\ Iteration(CsrForm(name, c, rs1, rd), csr_result(name, c, rs1))
    /\ npc' = NextPc
    /\ LET t == csr_read(c) IN
          /\ csr_write_invoked' = csr_calls_write(name, rs1)
          /\ mscratch' = IF csr_calls_write(name, rs1)
                         THEN csr_write(c, csr_wb_data(name, t, rs1))
                         ELSE mscratch
          /\ gpr' = gpr_write(gpr, rd, t)
    /\ UNCHANGED <<smp, host, cpu_state, cur_priv, xstatus, lr_sc_set, halt_ret>>

\* -------------------------------------------------------------- LR / SC
\* LrScReservation::set, check_and_clear, clear, behind
\* lr_sc_reservation_set / _check_and_clear / _clear.
\* Variant: a reservation is kept until it is cleared.
lr_sc_reservation_set_if_none(addr) ==
    IF lr_sc_set = <<>> THEN <<addr>> ELSE lr_sc_set
lr_sc_reservation_set(addr) == <<addr>>
lr_sc_reservation_check(addr) == lr_sc_set = <<addr>>
lr_sc_reservation_clear == NoReservation

\* LR rd=x0, (addr): reserves addr.
StepLr(addr) ==
    /\ Iteration(Lr(addr), OkRet)
    /\ npc' = NextPc
    /\ lr_sc_set' = lr_sc_reservation_set(addr)
    /\ UNCHANGED <<smp, host, cpu_state, cur_priv, gpr, xstatus, mscratch,
                   csr_write_invoked, halt_ret>>

\* SC a0, x0, (addr): checks and clears the reservation; a0 = 0 on success and
\* 1 on failure.
StepSc(addr) ==
    /\ Iteration(Sc(addr), OkRet)
    /\ npc' = NextPc
    /\ lr_sc_set' = lr_sc_reservation_clear
    /\ mem' = IF lr_sc_reservation_check(addr)
              THEN [mem EXCEPT ![addr] = gpr_read(gpr, X0)]
              ELSE mem
    /\ gpr' = gpr_write(gpr, A0, IF lr_sc_reservation_check(addr) THEN 0 ELSE 1)
    /\ UNCHANGED <<thr, bus_lock, host, cpu_state, cur_priv, xstatus, mscratch,
                   csr_write_invoked, halt_ret>>

\* ------------------------------------------------------------- tohost
\* SD to tohost: the store of the guest that check_to_host polls.
StepSdToHost(data) ==
    /\ Iteration(SdToHost(data), OkRet)
    /\ npc' = NextPc
    /\ tohost' = data
    /\ UNCHANGED <<smp, host_data, cpu_state, cur_priv, gpr, xstatus, mscratch,
                   lr_sc_set, csr_write_invoked, halt_ret>>

\* FesvrCmd::from(data): device = bits 63:56, cmd = bits 55:48, payload =
\* bits 47:0; exit_code = payload >> 1.
fesvr_device(data) == data.hi \div 256
fesvr_cmd(data) == data.hi % 256
fesvr_payload(data) == data.lo
exit_code(data) == fesvr_payload(data) \div 2
\* FesvrCmd::syscall_device: Some(pass) for an exit syscall (device 0,
\* command 0, lowest payload bit 1), None otherwise.
syscall_device(data) ==
    IF fesvr_device(data) = 0 /\ fesvr_cmd(data) = 0
          /\ fesvr_payload(data) % 2 = 1
    THEN <<exit_code(data) = 0>>
    ELSE <<>>

\* The run state check_to_host leaves for the word it read.
\* Variant: every exit syscall stops the hart.
to_host_state_always_stop(data) ==
    IF syscall_device(data) = <<>> THEN cpu_state ELSE "Stop"
to_host_state(data) ==
    IF syscall_device(data) = <<>> THEN cpu_state
    ELSE IF syscall_device(data)[1] THEN "Stop"
    ELSE "Abort"

\* check_to_host, as the embedding program calls it after execute: reads
\* the word, clears it, and acts on an exit syscall.
\* character_device_write only prints.
CheckToHost ==
    /\ phase = "idle"
    /\ host_data' = <<tohost>>
    /\ tohost' = TohostZero
    /\ cpu_state' = to_host_state(tohost)
    /\ UNCHANGED <<smp, pc, npc, cur_priv, gpr, trapcsrs, cfgcsrs, mscratch,
                   counters, platform, control, locals>>

\* ------------------------------------------------------ handle_exceptions
has_exception(trap) == get_exception_num(trap) \in medeleg
\* Variant: delegation without the privilege test.
trap_to_s_enable_any_priv == TRUE
trap_to_s_enable == cur_priv <= Supervisor
exception_to_s(trap) == has_exception(trap) /\ trap_to_s_enable

\* The mstatus update of a trap into Supervisor / into Machine.
trap_s_mstatus(m) ==
    [m EXCEPT !.spp = IF cur_priv = User THEN 0 ELSE 1,
              !.spie = m.sie, !.sie = FALSE]
\* Variant: a trap into Machine disables the Supervisor interrupts too.
trap_m_mstatus_clears_sie(m) ==
    [m EXCEPT !.mpp = cur_priv, !.mpie = m.mie, !.mie = FALSE,
              !.spie = m.sie, !.sie = FALSE]
trap_m_mstatus(m) ==
    [m EXCEPT !.mpie = m.mie, !.mie = FALSE, !.mpp = cur_priv]

\* What a trap entry does to the reservation set.
trap_reservation == lr_sc_set

HandleExceptions ==
    /\ phase = "ret"
    /\ exe_ret.tag = "Err"
    /\ LET trap == exe_ret.trap IN
          IF exception_to_s(trap)
          THEN /\ xstatus' = trap_s_mstatus(xstatus)
               /\ sepc' = pc
               /\ scause' = idx(trap)
               /\ stval' = get_tval(trap)
               /\ npc' = get_trap_pc(stvec, trap)
               /\ cur_priv' = Supervisor
               /\ UNCHANGED <<mepc, mcause, mtval>>
          ELSE /\ xstatus' = trap_m_mstatus(xstatus)
               /\ mepc' = pc
               /\ mcause' = idx(trap)
               /\ mtval' = get_tval(trap)
               /\ npc' = get_trap_pc(mtvec, trap)
               /\ cur_priv' = Machine
               /\ UNCHANGED <<sepc, scause, stval>>
    /\ lr_sc_set' = trap_reservation
    \* continue: the rest of the iteration is skipped
    /\ phase' = "loop"
    /\ iter' = iter + 1
    /\ UNCHANGED <<smp, host, cpu_state, pc, gpr, cfgcsrs, mscratch, counters, xip, mtime,
                   num, locals>>

\* ------------------------------------------------------ check_pending_int
\* clint.tick(): mtime += 1, MTIP raised iff mtime >= mtimecmp; plic.tick():
\* no source is pending.
clint_tick_mtip(t) == t >= mtimecmp

\* Variant: the interrupt check does not tick the CLINT.
CheckPendingInt_no_tick ==
    /\ phase = "ret"
    /\ exe_ret.tag = "Ok"
    /\ phase' = "int"
    /\ UNCHANGED <<smp, host, hart, trapcsrs, cfgcsrs, mscratch, counters, platform,
                   num, iter, locals>>

CheckPendingInt ==
    /\ phase = "ret"
    /\ exe_ret.tag = "Ok"
    /\ mtime' = mtime + 1
    /\ xip' = IF clint_tick_mtip(mtime + 1)
              THEN xip \cup {MachineTimerInt}
              ELSE xip \ {MachineTimerInt}
    /\ phase' = "int"
    /\ UNCHANGED <<smp, host, hart, trapcsrs, cfgcsrs, mscratch, counters, lr_sc_set,
                   num, iter, locals>>

\* ------------------------------------------------------- handle_interrupt
mip_mie_val == xie \cap xip
\* Variant: Machine interrupts are taken in Machine mode only.
int_to_m_enable_in_machine_only == xstatus.mie /\ cur_priv = Machine
\* Variant: Machine takes its interrupts whatever MIE says.
int_to_m_enable_ignoring_mie == cur_priv <= Machine
int_to_m_enable ==
    \/ xstatus.mie /\ cur_priv = Machine
    \/ cur_priv < Machine
int_to_m_peding == mip_mie_val \ mideleg
\* Variant: Supervisor takes its interrupts whatever SIE says.
int_to_s_enable_ignoring_sie ==
    \/ xstatus.sie /\ cur_priv = Supervisor
    \/ cur_priv <= Supervisor
\* Variant: delegated interrupts are taken from every privilege.
int_to_s_enable_any_priv == TRUE
int_to_s_enable ==
    \/ xstatus.sie /\ cur_priv = Supervisor
    \/ cur_priv < Supervisor
int_to_s_peding == mip_mie_val \cap mideleg

\* Variant: the Supervisor branch is tested first.
int_branch_s_first ==
    IF mip_mie_val = {} THEN "none"
    ELSE IF int_to_s_enable /\ int_to_s_peding # {} THEN "S"
    ELSE IF int_to_m_enable /\ int_to_m_peding # {} THEN "M"
    ELSE "none"

\* The branch handle_interrupt takes.
int_branch ==
    IF mip_mie_val = {} THEN "none"
    ELSE IF int_to_m_enable /\ int_to_m_peding # {} THEN "M"
    ELSE IF int_to_s_enable /\ int_to_s_peding # {} THEN "S"
    ELSE "none"

\* Variant: an interrupt saves the pc of the instruction just executed.
interrupt_epc_is_pc == pc

\* handle_interrupt: mepc.set(self.npc) / sepc.set(self.npc)
interrupt_epc == npc

HandleInterrupt ==
    /\ phase = "int"
    /\ int_taken' = int_branch
    /\ CASE int_branch = "M" ->
              LET cause == get_priority_interupt(int_to_m_peding) IN
                 /\ xstatus' = trap_m_mstatus(xstatus)
                 /\ mepc' = interrupt_epc
                 /\ mcause' = idx(cause)
                 /\ npc' = get_trap_pc(mtvec, cause)
                 /\ cur_priv' = Machine
                 /\ UNCHANGED <<mtval, sepc, scause, stval>>
         [] int_branch = "S" ->
              LET cause == get_priority_interupt(int_to_s_peding) IN
                 /\ xstatus' = trap_s_mstatus(xstatus)
                 /\ sepc' = interrupt_epc
                 /\ scause' = idx(cause)
                 /\ cur_priv' = Supervisor
                 /\ npc' = get_trap_pc(stvec, cause)
                 /\ UNCHANGED <<stval, mepc, mcause, mtval>>
         [] int_branch = "none" ->
              UNCHANGED <<trapcsrs, npc, cur_priv>>
    /\ lr_sc_set' = trap_reservation
    /\ phase' = "upd"
    /\ UNCHANGED <<smp, host, cpu_state, pc, gpr, cfgcsrs, mscratch, counters, xip, mtime,
                   num, iter, inst, exe_ret, csr_write_invoked, halt_ret>>

\* ------------------------------------------- bus update, instret increment
\* Variant: the instruction counter is not incremented.
BusUpdate_no_retire ==
    /\ phase = "upd"
    /\ phase' = "loop"
    /\ iter' = iter + 1
    /\ UNCHANGED <<smp, host, hart, trapcsrs, cfgcsrs, mscratch, counters, platform,
                   num, locals>>

BusUpdate ==
    /\ phase = "upd"
    /\ ~add_panics(instret, 1)
    /\ instret' = instret + 1
    /\ phase' = "loop"
    /\ iter' = iter + 1
    /\ UNCHANGED <<smp, host, hart, trapcsrs, cfgcsrs, mscratch, cycle, platform, num,
                   locals>>

\* ------------------------------------------------------------------ Next
\* step: the decoder's table, on the word fetched at npc.
Next ==
    \/ \E n \in 0..MaxNum : Execute(n)
    \/ LoopEnd
    \/ SetRunning
    \/ Unmapped \in image /\ FetchFault
    \/ \E i \in image : i.op = "UNDEF" /\ StepUndef(i.raw)
    \/ Op("EBREAK") \in image /\ StepEbreak
    \/ Op("ECALL") \in image /\ StepEcall
    \/ Op("MRET") \in image /\ StepMret
    \/ Op("SRET") \in image /\ StepSret
    \/ \E i \in image : i.op \in {"FENCE", "FENCE_I"} /\ StepFence(i.op)
    \/ \E i \in image : i.op \in CsrNames /\ StepCsr(i.op, i.csr, i.rs1, i.rd)
    \/ \E i \in image : i.op = "LR" /\ StepLr(i.addr)
    \/ \E i \in image : i.op = "SC" /\ StepSc(i.addr)
    \/ \E i \in image : i.op = "SD_TOHOST" /\ StepSdToHost(i.data)
    \/ CheckToHost
    \/ \E regs \in [Regs -> RegVals] : SetRegs(regs)
    \/ \E val \in XipVals : SetCsr(val)
    \/ HandleExceptions
    \/ CheckPendingInt
    \/ HandleInterrupt
    \/ BusUpdate

Spec == Init /\ [][Next]_vars

\* execute is sequential code: an iteration that has begun runs to its end
\* (handle_exceptions, or check_pending_int, handle_interrupt, bus update).
IterationEnds ==
    /\ WF_vars(HandleExceptions)
    /\ WF_vars(CheckPendingInt)
    /\ WF_vars(HandleInterrupt)
    /\ WF_vars(BusUpdate)

\* The timer scenario: the privileged binary run with the timer interrupt
\* enabled and nothing delegated but ECALL from User.
InitTimer ==
    /\ Built
    /\ overflow_checks = FALSE
    /\ thr = [h \in Harts |-> Thread(<<>>)]
    /\ image = PrivImage
    /\ xstatus \in MstatusVals(BOOLEAN, {FALSE}, {0, 1})
    /\ medeleg = {EnvironmentCallFromUMode}
    /\ mideleg \in MidelegVals
    /\ xie \in XieVals
    /\ xip = {}
    /\ mtimecmp \in MtimecmpVals

NextTimer ==
    \/ \E n \in 0..MaxNum : Execute(n)
    \/ LoopEnd
    \/ SetRunning
    \/ Unmapped \in image /\ FetchFault
    \/ \E i \in image : i.op = "UNDEF" /\ StepUndef(i.raw)
    \/ Op("EBREAK") \in image /\ StepEbreak
    \/ Op("ECALL") \in image /\ StepEcall
    \/ Op("MRET") \in image /\ StepMret
    \/ Op("SRET") \in image /\ StepSret
    \/ Op("FENCE") \in image /\ StepFence("FENCE")
    \/ HandleExceptions
    \/ CheckPendingInt
    \/ HandleInterrupt
    \/ BusUpdate

SpecTimer == InitTimer /\ [][NextTimer]_vars /\ IterationEnds

\* ------------------------------------------- two harts on one shared bus
\* Each hart runs in a thread of its own; the bus and the reservation are
\* behind one mutex each, so a step is what a hart does under one lock.
\* SD stores, and SC a0 writes, the hart's own mark.
Sd(addr) == [op |-> "SD", addr |-> addr]
AtomicInsts ==
    {Lr(a) : a \in ResAddrs} \cup {Sc(a) : a \in ResAddrs}
        \cup {Sd(a) : a \in ResAddrs}
SeqsUpTo(S, n) == UNION {[1..k -> S] : k \in 0..n}
store_data(h) == h + 1
\* A store to the reserved address clears the reservation.
store_reservation(addr) ==
    IF lr_sc_set = <<addr>> THEN lr_sc_reservation_clear ELSE lr_sc_set

InitHarts ==
    /\ Built
    /\ overflow_checks = FALSE
    /\ image = {}
    /\ xstatus = MstatusReset
    /\ medeleg = {} /\ mideleg = {} /\ xie = {} /\ xip = {}
    /\ mtimecmp = 1000
    /\ \E p \in SeqsUpTo(AtomicInsts, MaxProg),
          q \in SeqsUpTo(AtomicInsts, MaxOtherProg) :
          thr = [h \in Harts |-> IF h = HartId THEN Thread(p) ELSE Thread(q)]

\* The instruction hart h is at.
HartAt(h, name) ==
    /\ thr[h].at <= Len(thr[h].prog)
    /\ thr[h].prog[thr[h].at].op = name
HartInst(h) == thr[h].prog[thr[h].at]
hartframe == <<hart, trapcsrs, cfgcsrs, mscratch, counters, xip, mtime,
               control, locals, host, bus_lock>>

\* LR x0, (addr): lr_sc_reservation_set under the reservation lock.
HartLr(h) ==
    /\ HartAt(h, "LR") /\ ~thr[h].mid
    /\ lr_sc_set' = lr_sc_reservation_set(HartInst(h).addr)
    /\ thr' = [thr EXCEPT ![h].at = @ + 1]
    /\ UNCHANGED <<mem, hartframe>>

\* SC, first half: lr_sc_reservation_check_and_clear under the reservation
\* lock, which is released when the call returns.
HartScCheck(h) ==
    /\ HartAt(h, "SC") /\ ~thr[h].mid
    /\ lr_sc_set' = lr_sc_reservation_clear
    /\ thr' = IF lr_sc_reservation_check(HartInst(h).addr)
              THEN [thr EXCEPT ![h].mid = TRUE]
              ELSE [thr EXCEPT ![h].rd = <<1>>, ![h].at = @ + 1]
    /\ UNCHANGED <<mem, hartframe>>

\* SC, second half: CpuCore::write under the bus lock, then rd = 0.
HartScWrite(h) ==
    /\ HartAt(h, "SC") /\ thr[h].mid
    /\ mem' = [mem EXCEPT ![HartInst(h).addr] = store_data(h)]
    /\ lr_sc_set' = store_reservation(HartInst(h).addr)
    /\ thr' = [thr EXCEPT ![h].mid = FALSE, ![h].rd = <<0>>, ![h].at = @ + 1]
    /\ UNCHANGED hartframe

\* SD: CpuCore::write under the bus lock.
HartSd(h) ==
    /\ HartAt(h, "SD") /\ ~thr[h].mid
    /\ mem' = [mem EXCEPT ![HartInst(h).addr] = store_data(h)]
    /\ lr_sc_set' = store_reservation(HartInst(h).addr)
    /\ thr' = [thr EXCEPT ![h].at = @ + 1]
    /\ UNCHANGED hartframe

NextHarts ==
    \/ \E h \in Harts : HartLr(h)
    \/ \E h \in Harts : HartScCheck(h)
    \/ \E h \in Harts : HartScWrite(h)
    \/ \E h \in Harts : HartSd(h)

SpecHarts == InitHarts /\ [][NextHarts]_vars

\* ------------------------------------ tohost polled while a hart stores
\* Hart HartId is polled with check_to_host while the other hart, in a
\* thread of its own, stores to tohost. Every access to the bus is made
\* through its mutex: a store holds it for the one write, check_to_host from
\* its first statement to its return.
HostProgs == SeqsUpTo({SdToHost(d) : d \in TohostVals}, MaxHostProg)

InitHost ==
    /\ Built
    /\ overflow_checks = FALSE
    /\ image = {}
    /\ xstatus = MstatusReset
    /\ medeleg = {} /\ mideleg = {} /\ xie = {} /\ xip = {}
    /\ mtimecmp = 1000
    /\ \E q \in HostProgs :
          thr = [h \in Harts |-> IF h = HartId THEN Thread(<<>>) ELSE Thread(q)]

hostframe == <<pc, npc, cur_priv, gpr, trapcsrs, cfgcsrs, mscratch, counters,
               platform, control, locals, mem>>

\* Variant: the store does not wait for the mutex of the bus.
HartSdToHost_unlocked(h) ==
    /\ HartAt(h, "SD_TOHOST")
    /\ tohost' = HartInst(h).data
    /\ thr' = [thr EXCEPT ![h].at = @ + 1]
    /\ UNCHANGED <<hostframe, cpu_state, host_data, bus_lock>>

\* SD to tohost by hart h: the write under the mutex of the bus.
HartSdToHost(h) ==
    /\ HartAt(h, "SD_TOHOST")
    /\ bus_lock = <<>>
    /\ tohost' = HartInst(h).data
    /\ thr' = [thr EXCEPT ![h].at = @ + 1]
    /\ UNCHANGED <<hostframe, cpu_state, host_data, bus_lock>>

\* check_to_host: let mut bus_u = self.mmu.bus.lock().unwrap()
HostLock ==
    /\ phase = "idle"
    /\ cpu_state = "Running"
    /\ bus_lock = <<>>
    /\ bus_lock' = <<HartId>>
    /\ host_data' = <<>>
    /\ UNCHANGED <<hostframe, cpu_state, tohost, thr>>

\* check_to_host: let data = bus_u.read(0x8000_1000, 8).unwrap()
HostRead ==
    /\ bus_lock = <<HartId>>
    /\ host_data = <<>>
    /\ host_data' = <<tohost>>
    /\ UNCHANGED <<hostframe, cpu_state, tohost, thr, bus_lock>>

\* check_to_host: bus_u.write(0x8000_1000, 0, 8), the state change, and the
\* return that drops the guard.
HostClear ==
    /\ bus_lock = <<HartId>>
    /\ host_data # <<>>
    /\ tohost' = TohostZero
    /\ cpu_state' = to_host_state(host_data[1])
    /\ bus_lock' = <<>>
    /\ UNCHANGED <<hostframe, host_data, thr>>

NextHost ==
    \/ SetRunning
    \/ \E h \in Harts : HartSdToHost(h)
    \/ HostLock
    \/ HostRead
    \/ HostClear

SpecHost == InitHost /\ [][NextHost]_vars

\* ------------------------------------------- the top of the 64-bit range
\* Addresses and counter values the harness sets: 2^64 - 8 and 2^64 - 4,
\* and 2^64 - 1.
TopPcs == {-8, -4}
TopCounts == {-1}
CSR_MCYCLE == 2816
CSR_MINSTRET == 2818
\* The binary holds a FENCE; nothing is mapped at the top of the address
\* space.
WrapImage == {Unmapped, Op("FENCE")}

\* Difftest::set_pc: self.npc = pc
SetPc(val) ==
    /\ phase = "idle"
    /\ npc' = val
    /\ UNCHANGED <<smp, host, cpu_state, pc, cur_priv, gpr, trapcsrs, cfgcsrs,
                   mscratch, counters, platform, control, locals>>

\* Difftest::set_csr(CSR_MCYCLE or CSR_MINSTRET, val): csr_regs.write_raw,
\* as the harness programs the counters before the run.
SetCounter(csr, val) ==
    /\ phase = "idle"
    /\ cycle = 0 /\ instret = 0
    /\ cycle' = IF csr = CSR_MCYCLE THEN val ELSE cycle
    /\ instret' = IF csr = CSR_MINSTRET THEN val ELSE instret
    /\ UNCHANGED <<smp, host, hart, trapcsrs, cfgcsrs, mscratch, platform,
                   control, locals>>

\* execute: cycle + 1 panics; the thread unwinds out of execute.
PanicCycle ==
    /\ CanFetch
    /\ add_panics(cycle, 1)
    /\ phase' = "panic"
    /\ UNCHANGED <<smp, host, hart, trapcsrs, cfgcsrs, mscratch, counters,
                   platform, num, iter, locals>>

\* inst_fetch: self.pc = self.npc, then self.npc += 4 panics.
PanicFetch ==
    /\ CanFetch
    /\ ~add_panics(cycle, 1)
    /\ add_panics(npc, 4)
    /\ cycle' = cycle + 1
    /\ pc' = npc
    /\ phase' = "panic"
    /\ UNCHANGED <<smp, host, cpu_state, npc, cur_priv, gpr, trapcsrs, cfgcsrs,
                   mscratch, instret, platform, num, iter, locals>>

\* execute: instret + 1 panics after the bus update.
PanicInstret ==
    /\ phase = "upd"
    /\ add_panics(instret, 1)
    /\ phase' = "panic"
    /\ UNCHANGED <<smp, host, hart, trapcsrs, cfgcsrs, mscratch, counters,
                   platform, num, iter, locals>>

\* The built hart of either build profile, driven by the harness to the top
\* of the range.
InitWrap ==
    /\ Built
    /\ overflow_checks \in BOOLEAN
    /\ thr = [h \in Harts |-> Thread(<<>>)]
    /\ image = WrapImage
    /\ xstatus = MstatusReset
    /\ medeleg = {} /\ mideleg = {} /\ xie = {} /\ xip = {}
    /\ mtimecmp = 1000

NextWrap ==
    \/ \E n \in 0..MaxNum : Execute(n)
    \/ LoopEnd
    \/ SetRunning
    \/ \E val \in TopPcs : SetPc(val)
    \/ \E csr \in {CSR_MCYCLE, CSR_MINSTRET}, val \in TopCounts :
          SetCounter(csr, val)
    \/ Unmapped \in image /\ FetchFault
    \/ Op("FENCE") \in image /\ StepFence("FENCE")
    \/ PanicCycle
    \/ PanicFetch
    \/ PanicInstret
    \/ HandleExceptions
    \/ CheckPendingInt
    \/ HandleInterrupt
    \/ BusUpdate

SpecWrap == InitWrap /\ [][NextWrap]_vars

\* ================================================================ claims
\* The steps the claims speak of, read off two successive states.
\* step returned: the handler of the fetched instruction has run.
Stepped(name) == CanFetch /\ phase' = "ret" /\ inst'.op = name
\* handle_exceptions delivered the exception of this iteration.
ExceptionEntry == phase = "ret" /\ exe_ret.tag = "Err" /\ phase' = "loop"
\* handle_interrupt ran.
InterruptCheck == phase = "int" /\ phase' = "upd"
\* handle_interrupt entered an interrupt.
InterruptEntry == InterruptCheck /\ int_taken' # "none"

\* C1: an ECALL executed at privilege User with medeleg bit 8 set enters a
\* Supervisor trap: afterwards privilege = Supervisor, scause = 8 and
\* sepc = the pc of the ECALL.
C1_EcallFromUserDelegated ==
    [][(ExceptionEntry /\ inst.op = "ECALL" /\ cur_priv = User
            /\ EnvironmentCallFromUMode \in medeleg)
         => /\ cur_priv' = Supervisor
            /\ scause' = [interrupt |-> FALSE, code |-> EnvironmentCallFromUMode]
            /\ sepc' = pc]_vars
\* The ECALL of a User hart with medeleg bit 8 set has been delivered.
C1_Witness ==
    /\ phase = "loop"
    /\ inst.op = "ECALL"
    /\ exe_ret.tag = "Err"
    /\ EnvironmentCallFromUMode \in medeleg
    /\ xstatus.mpp = User
    /\ cur_priv = Machine
    /\ mcause = [interrupt |-> FALSE, code |-> EnvironmentCallFromMMode]

\* C2: a trap into Machine mode records the pre-trap privilege p and the
\* pre-trap MIE in MPP and MPIE, and the MRET executed next leaves the hart
\* with privilege = p and mstatus.MIE = the pre-trap MIE.
MachineEntry ==
    \/ ExceptionEntry /\ cur_priv' = Machine
    \/ InterruptEntry /\ int_taken' = "M"
AfterMachineEntry ==
    /\ phase \in {"loop", "idle"}
    /\ \/ exe_ret.tag = "Err" /\ cur_priv = Machine
       \/ exe_ret.tag = "Ok" /\ int_taken = "M"
C2_MretRestoresPrivAndMie ==
    [][/\ MachineEntry =>
            xstatus'.mpp = cur_priv /\ xstatus'.mpie = xstatus.mie
       /\ (AfterMachineEntry /\ Stepped("MRET")) =>
            cur_priv' = xstatus.mpp /\ xstatus'.mie = xstatus.mpie]_vars

\* C3: CSRRS and CSRRC with rs1 = x0, and CSRRSI and CSRRCI with zimm = 0,
\* read the CSR into rd without invoking the CSR write, whereas CSRRW and
\* CSRRWI always invoke it (CSRRW rd, csr, x0 writes 0).
C3_SetClearWithZeroSkipsWrite ==
    [][/\ (\E n \in {"CSRRS", "CSRRC", "CSRRSI", "CSRRCI"} :
              Stepped(n) /\ inst'.rs1 = X0)
            => /\ ~csr_write_invoked'
               /\ gpr' = gpr_write(gpr, inst'.rd, csr_read(inst'.csr))
               /\ mscratch' = mscratch
       /\ (Stepped("CSRRW") \/ Stepped("CSRRWI")) => csr_write_invoked'
       /\ (Stepped("CSRRW") /\ inst'.rs1 = X0 /\ inst'.csr = CSR_MSCRATCH
              /\ cur_priv = Machine)
            => mscratch' = 0]_vars
\* A CSRRS or CSRRC with rs1 = x0 has run.
C3_Witness ==
    /\ phase = "ret"
    /\ inst.op \in {"CSRRS", "CSRRC"}
    /\ inst.rs1 = X0
    /\ inst.csr = CSR_MSCRATCH
    /\ csr_write_invoked

\* C4: a CSR instruction that accesses a CSR whose required privilege is
\* higher than the current privilege, or that would write a read-only CSR,
\* raises IllegalInstruction and changes neither the CSR nor rd.
C4_WouldWrite(i) == i.op \in {"CSRRW", "CSRRWI"} \/ i.rs1 # X0
C4_IllegalAccess(i) ==
    \/ cur_priv < (i.csr \div 256) % 4
    \/ (i.csr \div 1024) % 4 = 3 /\ C4_WouldWrite(i)
C4_IllegalCsrAccessTraps ==
    [][(\E n \in CsrNames : Stepped(n) /\ C4_IllegalAccess(inst'))
         => /\ exe_ret'.tag = "Err"
            /\ exe_ret'.trap.num = IllegalInstructionNum
            /\ mscratch' = mscratch
            /\ gpr' = gpr]_vars
\* A CSR instruction writing the read-only mhartid has run.
C4_Witness ==
    /\ phase = "ret"
    /\ inst.op \in CsrNames
    /\ inst.csr = CSR_MHARTID
    /\ inst.rs1 # X0
    /\ inst.rd = A0
    /\ exe_ret = OkRet

\* C5: any trap taken by the hart (an exception delivered by
\* handle_exceptions or an interrupt delivered by handle_interrupt) clears
\* the reservation, so that an SC executed next fails.
C5_AfterTrap ==
    /\ phase \in {"loop", "idle"}
    /\ exe_ret.tag = "Err" \/ int_taken # "none"
C5_TrapClearsReservation ==
    [][/\ (ExceptionEntry \/ InterruptEntry) => lr_sc_set' = NoReservation
       /\ (C5_AfterTrap /\ Stepped("SC")) => gpr'[A0] = 1]_vars
\* LR, the Machine timer interrupt taken after it, then SC: SC has run.
C5_Witness ==
    /\ phase = "ret"
    /\ cycle = 2
    /\ inst.op = "SC"
    /\ int_taken = "none"
    /\ mcause = [interrupt |-> TRUE, code |-> MachineTimerInt]
    /\ gpr[A0] = 0

\* C6: a synchronous exception with number e is taken into Supervisor mode
\* if and only if the current privilege is User or Supervisor and
\* medeleg[e] = 1; in every other case it is taken into Machine mode.
C6_ToSupervisor ==
    /\ cur_priv' = Supervisor
    /\ scause' = [interrupt |-> FALSE, code |-> exe_ret.trap.num]
    /\ npc' = stvec.base
    /\ UNCHANGED <<mepc, mcause, mtval>>
C6_ToMachine ==
    /\ cur_priv' = Machine
    /\ mcause' = [interrupt |-> FALSE, code |-> exe_ret.trap.num]
    /\ npc' = mtvec.base
    /\ UNCHANGED <<sepc, scause, stval>>
C6_ExceptionDelegation ==
    [][ExceptionEntry =>
         IF cur_priv \in {User, Supervisor} /\ exe_ret.trap.num \in medeleg
         THEN C6_ToSupervisor
         ELSE C6_ToMachine]_vars
\* A delegated exception raised at privilege User has entered Supervisor.
C6_Witness ==
    /\ phase = "loop"
    /\ exe_ret.tag = "Err"
    /\ exe_ret.trap.num \in medeleg
    /\ cur_priv = Supervisor
    /\ xstatus.spp = 0
    /\ scause.code = exe_ret.trap.num

\* C7: an interrupt targeting Machine (a bit of mip & mie & ~mideleg) is
\* taken only if privilege < Machine or (privilege = Machine and
\* mstatus.MIE = 1); an interrupt targeting Supervisor (a bit of
\* mip & mie & mideleg) is taken only if privilege < Supervisor or
\* (privilege = Supervisor and mstatus.SIE = 1); no Supervisor-targeted
\* interrupt is taken while the hart is in Machine mode.
C7_TakenToMachine ==
    /\ int_taken' = "M"
    /\ cur_priv' = Machine
    /\ mcause'.interrupt
    /\ mcause'.code \in (xip \cap xie) \ mideleg
C7_TakenToSupervisor ==
    /\ int_taken' = "S"
    /\ cur_priv' = Supervisor
    /\ scause'.interrupt
    /\ scause'.code \in (xip \cap xie) \cap mideleg
C7_InterruptEnableRule ==
    [][InterruptCheck =>
         /\ int_taken' = "M" =>
               /\ C7_TakenToMachine
               /\ cur_priv < Machine \/ (cur_priv = Machine /\ xstatus.mie)
         /\ int_taken' = "S" =>
               /\ C7_TakenToSupervisor
               /\ cur_priv < Supervisor
                     \/ (cur_priv = Supervisor /\ xstatus.sie)
         /\ int_taken' = "none" => UNCHANGED <<cur_priv, npc, trapcsrs>>
         /\ cur_priv = Machine => int_taken' # "S"]_vars
\* A delegated interrupt has been taken from Supervisor with SIE = 1.
C7_Witness ==
    /\ phase = "upd"
    /\ int_taken = "S"
    /\ cur_priv = Supervisor
    /\ xstatus.spp = 1
    /\ xstatus.spie
    /\ scause = [interrupt |-> TRUE, code |-> SupervisorTimerInt]

\* C8: when a Machine-targeted and a Supervisor-targeted interrupt are both
\* pending, enabled in mie and deliverable under the enable rule at the same
\* interrupt check, the Machine-targeted one is taken: privilege becomes
\* Machine, mcause and mepc are written, scause and sepc are not.
C8_MachineDeliverable ==
    /\ (xip \cap xie) \ mideleg # {}
    /\ cur_priv < Machine \/ (cur_priv = Machine /\ xstatus.mie)
C8_SupervisorDeliverable ==
    /\ (xip \cap xie) \cap mideleg # {}
    /\ cur_priv < Supervisor \/ (cur_priv = Supervisor /\ xstatus.sie)
C8_MachineWins ==
    [][(InterruptCheck /\ C8_MachineDeliverable /\ C8_SupervisorDeliverable)
         => /\ int_taken' = "M"
            /\ cur_priv' = Machine
            /\ mcause'.interrupt
            /\ mcause'.code \in (xip \cap xie) \ mideleg
            /\ mepc' = npc
            /\ UNCHANGED <<scause, sepc>>]_vars
\* The Machine timer interrupt has been taken from User while the delegated
\* Supervisor timer interrupt is pending and enabled too.
C8_Witness ==
    /\ phase = "upd"
    /\ int_taken = "M"
    /\ xstatus.mpp = User
    /\ SupervisorTimerInt \in (xip \cap xie) \cap mideleg
    /\ mcause = [interrupt |-> TRUE, code |-> MachineTimerInt]
    /\ scause = [interrupt |-> FALSE, code |-> 0]

\* C9: execute(n) performs at most n iterations and checks the run state at
\* the top of each one: when the state is not Running there it changes
\* nothing (pc, npc, cycle, instret, registers, privilege) and leaves the
\* loop, and while the state is Stopped or Aborted no instruction is fetched
\* or executed, in that call or a later one, until Running is set (the
\* registers change only through set_regs between two calls).
C9_ExecuteObservesRunState ==
    [][/\ iter' <= num'
       /\ Stepped(inst'.op) => iter < num /\ cpu_state = "Running"
       /\ (phase = "loop" /\ cpu_state # "Running") =>
             /\ phase' = "idle"
             /\ UNCHANGED <<pc, npc, cycle, instret, gpr, cur_priv>>
       /\ cpu_state # "Running" =>
             /\ UNCHANGED <<pc, cycle, inst, exe_ret>>
             /\ gpr' # gpr => phase = "idle" /\ phase' = "idle"]_vars
\* The first of two iterations has stopped the hart: the second is not run.
C9_Witness ==
    /\ phase = "idle"
    /\ cpu_state = "Stop"
    /\ inst.op = "EBREAK"
    /\ cycle = 1
    /\ instret = 1

\* C10: executing EBREAK while Running moves the hart to Stopped, whatever
\* the value of a0, without delivering a trap (privilege, mepc/sepc and
\* mcause/scause are not changed by the EBREAK itself), and halt returns
\* the value of a0.
C10_EbreakStops ==
    [][Stepped("EBREAK") =>
         /\ cpu_state = "Running"
         /\ cpu_state' = "Stop"
         /\ exe_ret' = OkRet
         /\ halt_ret' = <<gpr[A0]>>
         /\ UNCHANGED <<cur_priv, mepc, sepc, mcause, scause, gpr>>]_vars
\* EBREAK has stopped the hart with a0 = 1.
C10_Witness ==
    /\ phase = "ret"
    /\ inst.op = "EBREAK"
    /\ cpu_state = "Stop"
    /\ gpr[A0] = 1
    /\ halt_ret = <<1>>

\* C11: check_to_host reads the tohost word and always leaves it 0; an exit
\* syscall with exit code 0 (the guest wrote 1) makes the hart Stopped, one
\* with a non-zero exit code makes it Aborted, and a word that is 0 or is no
\* exit syscall leaves the run state unchanged; nothing else of the hart
\* changes.
C11_IsExit(d) == d.hi = 0 /\ d.lo % 2 = 1
C12_X0ReadsZero == gpr_read(gpr, X0) = 0 /\ gpr[X0] = 0
\* A CSR instruction with rd = x0 has run on registers that set_regs wrote.
C12_Witness ==
    /\ phase = "ret"
    /\ inst.op \in CsrNames
    /\ inst.rd = X0
    /\ gpr[A0] = 1
    /\ mscratch = 1
    /\ gpr[X0] = 0

\* C13: a word the decoder has no entry for is no host abort: step returns
\* IllegalInstruction with the raw bits as tval, the run state stays
\* Running, and handle_exceptions delivers the trap with xepc = the pc of
\* that instruction, xcause = 2 and xtval = the raw bits.
C13_DecodeMissTraps ==
    [][/\ Stepped("UNDEF") =>
            /\ exe_ret' = ErrRet(Exception(IllegalInstructionNum, inst'.raw))
            /\ pc' = npc
            /\ cpu_state' = "Running"
       /\ (ExceptionEntry /\ inst.op = "UNDEF") =>
            /\ cpu_state' = "Running"
            /\ pc' = pc
            /\ IF cur_priv' = Supervisor
               THEN /\ sepc' = pc
                    /\ scause' = [interrupt |-> FALSE,
                                  code |-> IllegalInstructionNum]
                    /\ stval' = inst.raw
               ELSE /\ cur_priv' = Machine
                    /\ mepc' = pc
                    /\ mcause' = [interrupt |-> FALSE,
                                  code |-> IllegalInstructionNum]
                    /\ mtval' = inst.raw]_vars
\* The trap of an undecodable word at a non-zero pc has been delivered.
C13_Witness ==
    /\ phase = "loop"
    /\ inst.op = "UNDEF"
    /\ exe_ret.tag = "Err"
    /\ cpu_state = "Running"
    /\ cycle = 2
    /\ pc # 0
    /\ mepc = pc
    /\ mtval = inst.raw
    /\ mcause = [interrupt |-> FALSE, code |-> IllegalInstructionNum]

\* C14: on one hart an LR followed by an SC to the same address, with no
\* store, trap or reservation operation of another hart in between,
\* succeeds; the SC consumes the reservation, so a second SC without a new
\* LR fails; and the one reservation is shared by the harts of a bus, so an
\* LR of another hart to a different address in between makes the SC fail.
C14_Other(h) == CHOOSE o \in Harts : o # h
C14_Previous(h) == thr[h].prog[thr[h].at - 1]
\* The other hart has not run any instruction, not even half of one.
C14_OtherIdle(h) == thr[C14_Other(h)].at = 1 /\ ~thr[C14_Other(h)].mid
C14_ScChecks(h) == HartAt(h, "SC") /\ ~thr[h].mid /\ thr'[h] # thr[h]
C14_ScFails(h) ==
    /\ thr'[h] = [thr[h] EXCEPT !.rd = <<1>>, !.at = @ + 1]
    /\ mem' = mem
C14_LrScOnSharedReservation ==
    [][\A h \in Harts :
         /\ (HartAt(h, "LR") /\ thr'[h] # thr[h]) =>
               lr_sc_set' = <<HartInst(h).addr>>
         /\ (C14_ScChecks(h) /\ thr[h].at > 1) =>
               /\ (/\ C14_Previous(h) = Lr(HartInst(h).addr)
                   /\ C14_OtherIdle(h)) =>
                     thr'[h].mid /\ lr_sc_set' = NoReservation
               /\ (/\ C14_Previous(h).op = "SC"
                   /\ C14_OtherIdle(h)) => C14_ScFails(h)
               /\ (/\ C14_Previous(h) = Lr(HartInst(h).addr)
                   /\ thr[C14_Other(h)].at = 2
                   /\ thr[C14_Other(h)].prog[1].op = "LR"
                   /\ lr_sc_set = <<thr[C14_Other(h)].prog[1].addr>>
                   /\ lr_sc_set # <<HartInst(h).addr>>) => C14_ScFails(h)
         /\ (HartAt(h, "SC") /\ thr[h].mid /\ thr'[h] # thr[h]) =>
               /\ thr'[h].rd = <<0>>
               /\ mem'[HartInst(h).addr] = store_data(h)]_vars
\* Hart 0 ran LR and SC on one address and the SC failed, the other hart
\* having run an LR on the other address.
C14_Witness ==
    /\ thr[0].prog = <<Lr(8192), Sc(8192)>>
    /\ thr[0].at = 3
    /\ thr[0].rd = <<1>>
    /\ thr[1].prog = <<Lr(8200)>>
    /\ thr[1].at = 2

\* C15: with two harts in threads of their own on one bus, a successful SC
\* is atomic with respect to the other hart: between its reservation check
\* and its own memory write no store of the other hart to the reserved
\* address takes effect.
C15_ScAtomic ==
    [][\A h \in Harts :
         (HartAt(h, "SC") /\ thr[h].mid /\ thr'[h].mid) =>
            mem'[HartInst(h).addr] = mem[HartInst(h).addr]]_vars

\* C16: once the CLINT has raised mip.MTIP while mie.MTIE = 1,
\* mstatus.MIE = 1 and mideleg bit 7 = 0, and execute runs its iteration to
\* the end, the hart eventually takes a Machine interrupt with mcause =
\* interrupt 7 (bit 63 set, code 7) and npc = the mtvec trap pc.
C16_TimerDue ==
    /\ MachineTimerInt \in xip
    /\ MachineTimerInt \in xie
    /\ MachineTimerInt \notin mideleg
    /\ xstatus.mie
C16_TimerTaken ==
    /\ int_taken = "M"
    /\ cur_priv = Machine
    /\ mcause = [interrupt |-> TRUE, code |-> MachineTimerInt]
    /\ npc = get_trap_pc(mtvec, Interrupt(MachineTimerInt))
    /\ ~xstatus.mie
C16_TimerInterruptEventuallyTaken == C16_TimerDue ~> C16_TimerTaken
\* The timer interrupt has been taken from User, where MIE = 1 was left on.
C16_Witness ==
    /\ phase = "upd"
    /\ C16_TimerTaken
    /\ xstatus.mpie
    /\ xstatus.mpp = User
    /\ mtime >= mtimecmp

\* C17: an interrupt that is pending, enabled in mie and deliverable under
\* the enable rule at the end of an iteration of execute is taken before the
\* next instruction is fetched, in every iteration, one whose instruction
\* raised a synchronous exception included: the interrupt check takes what
\* is deliverable, and no fetch that follows an iteration finds an interrupt
\* deliverable.
C17_Deliverable ==
    \/ /\ (xip \cap xie) \ mideleg # {}
       /\ cur_priv < Machine \/ (cur_priv = Machine /\ xstatus.mie)
    \/ /\ (xip \cap xie) \cap mideleg # {}
       /\ cur_priv < Supervisor \/ (cur_priv = Supervisor /\ xstatus.sie)
C17_TakenBeforeNextFetch ==
    [][/\ (InterruptCheck /\ C17_Deliverable) => int_taken' # "none"
       /\ (phase = "loop" /\ iter > 0 /\ phase' = "ret") =>
             ~C17_Deliverable]_vars
\* The iteration after one that raised an exception has fetched its
\* instruction with an interrupt deliverable.
C17_Witness ==
    /\ phase = "ret"
    /\ iter = 1
    /\ inst.op = "FENCE"
    /\ cur_priv = Supervisor
    /\ scause = [interrupt |-> FALSE, code |-> EnvironmentCallFromMMode]
    /\ SupervisorTimerInt \in (xip \cap xie) \ mideleg
    /\ mcause = [interrupt |-> FALSE, code |-> 0]

\* C18: a trap taken into Machine mode (exception or interrupt) from
\* privilege p sets mstatus.MPP = p, mstatus.MPIE = the old mstatus.MIE,
\* mstatus.MIE = 0, privilege = Machine, npc = the mtvec trap pc, and writes
\* mepc, mcause and mtval (the tval of the trap: 0 for an interrupt).
C18_Trap ==
    IF exe_ret.tag = "Err" THEN exe_ret.trap
    ELSE get_priority_interupt((xip \cap xie) \ mideleg)
C18_MachineTrapEntry ==
    [][MachineEntry =>
         /\ xstatus' = [xstatus EXCEPT !.mpp = cur_priv, !.mpie = xstatus.mie,
                                       !.mie = FALSE]
         /\ cur_priv' = Machine
         /\ npc' = get_trap_pc(mtvec, C18_Trap)
         /\ mepc' = IF exe_ret.tag = "Err" THEN pc ELSE npc
         /\ mcause' = idx(C18_Trap)
         /\ mtval' = get_tval(C18_Trap)]_vars
\* A Machine interrupt has been taken after an exception that left a
\* non-zero mtval.
C18_Witness ==
    /\ phase = "upd"
    /\ int_taken = "M"
    /\ mcause.interrupt
    /\ mtval # 0
    /\ inst.op = "MRET"

\* C19: a trap taken into Supervisor mode (exception or interrupt) from
\* privilege p sets mstatus.SPP = 0 if p = User and 1 otherwise,
\* mstatus.SPIE = the old mstatus.SIE, mstatus.SIE = 0, privilege =
\* Supervisor, npc = the stvec trap pc, and writes sepc, scause and stval
\* (the tval of the trap: 0 for an interrupt).
C19_SupervisorEntry ==
    \/ ExceptionEntry /\ cur_priv' = Supervisor
    \/ InterruptEntry /\ int_taken' = "S"
C19_Trap ==
    IF exe_ret.tag = "Err" THEN exe_ret.trap
    ELSE get_priority_interupt((xip \cap xie) \cap mideleg)
C19_SupervisorTrapEntry ==
    [][C19_SupervisorEntry =>
         /\ xstatus' = [xstatus EXCEPT
                           !.spp = IF cur_priv = User THEN 0 ELSE 1,
                           !.spie = xstatus.sie, !.sie = FALSE]
         /\ cur_priv' = Supervisor
         /\ npc' = get_trap_pc(stvec, C19_Trap)
         /\ sepc' = IF exe_ret.tag = "Err" THEN pc ELSE npc
         /\ scause' = idx(C19_Trap)
         /\ stval' = get_tval(C19_Trap)]_vars
\* A Supervisor interrupt has been taken after an exception that left a
\* non-zero stval.
C19_Witness ==
    /\ phase = "upd"
    /\ int_taken = "S"
    /\ scause.interrupt
    /\ stval # 0
    /\ xstatus.spp = 0

\* C20: the pc saved by a trap is, for a synchronous exception (a fetch
\* fault included), the pc of the faulting instruction, and for an
\* interrupt the address of the instruction that would have executed next:
\* the target of the instruction just executed when it set npc (MRET, SRET)
\* and pc + 4 otherwise.
C20_NextInstruction ==
    CASE inst.op = "MRET" -> mepc
      [] inst.op = "SRET" -> sepc
      [] OTHER -> pc + 4
C20_SavedPc ==
    [][/\ (ExceptionEntry /\ cur_priv' = Machine) => mepc' = pc
       /\ (ExceptionEntry /\ cur_priv' = Supervisor) => sepc' = pc
       /\ (ExceptionEntry /\ exe_ret.trap.num = InstructionAccessFault)
             => exe_ret.trap.tval = pc
       /\ (InterruptEntry /\ int_taken' = "M") => mepc' = C20_NextInstruction
       /\ (InterruptEntry /\ int_taken' = "S")
             => sepc' = C20_NextInstruction]_vars
\* An interrupt has been taken right after an MRET and saved the MRET
\* target, the pc of an earlier exception, not the address after the MRET.
C20_Witness ==
    /\ phase = "upd"
    /\ int_taken = "M"
    /\ mcause.interrupt
    /\ inst.op = "MRET"
    /\ mepc # pc + 4
    /\ mepc # 0

\* C21: every iteration of execute in the Running state increments cycle by
\* exactly 1; instret is incremented by exactly 1 when the instruction
\* completed without a synchronous exception (also when an interrupt is then
\* taken in the same iteration) and is unchanged when fetch, decode or the
\* handler raised an exception; hence instret <= cycle in every state.
C21_IterationStarts == CanFetch /\ phase' = "ret"
C21_IterationCompletes == phase = "upd" /\ phase' = "loop"
C22_MretEffect ==
    [][Stepped("MRET") =>
         /\ xstatus'.mie = xstatus.mpie
         /\ xstatus'.mpie
         /\ xstatus'.mpp = User
         /\ xstatus'.sie = xstatus.sie
         /\ xstatus'.spie = xstatus.spie
         /\ xstatus'.spp = xstatus.spp
         /\ npc' = mepc
         /\ mepc' = mepc]_vars
\* MRET has run in a handler entered with MPIE = 0 and MPP = Machine: MIE is
\* 0 again, MPIE is 1, MPP is User, SPIE and SPP kept their values and npc is
\* the saved pc.
C22_Witness ==
    /\ phase = "ret"
    /\ inst.op = "MRET"
    /\ ~xstatus.mie
    /\ xstatus.mpie
    /\ xstatus.mpp = User
    /\ xstatus.spie
    /\ xstatus.spp = 1
    /\ mcause = [interrupt |-> FALSE, code |-> InstructionAccessFault]
    /\ npc = mepc
    /\ mepc = 4096

\* C23: a hart produced by CpuCoreBuild::build has pc = npc = the configured
\* boot pc, privilege Machine and a run state that is not Running, so execute
\* does nothing until the state is set to Running, and the first instruction
\* fetched afterwards is at the boot pc with npc = boot pc + 4 (before the
\* instruction itself sets npc).
C23_Fetched ==
    CASE inst'.op = "MRET" -> mepc
      [] inst'.op = "SRET" -> sepc
      [] OTHER -> pc' + 4
C23_BuiltHart ==
    /\ [](cycle = 0 =>
            /\ pc \in BootPcs /\ npc = pc
            /\ cur_priv = Machine
            /\ cpu_state \in {"Stop", "Running"}
            /\ instret = 0)
    /\ [][/\ (cycle = 0 /\ cpu_state = "Stop") =>
                /\ UNCHANGED <<pc, npc, cur_priv, counters, trapcsrs, inst,
                               exe_ret>>
                /\ ~(phase = "idle" /\ phase' = "idle") =>
                      UNCHANGED <<gpr, platform>>
                /\ cpu_state' # "Stop" =>
                      cpu_state' = "Running" /\ phase = "idle"
                                             /\ phase' = "idle"
          /\ (cycle = 0 /\ cycle' # 0) =>
                /\ cpu_state = "Running"
                /\ cycle' = 1
                /\ pc' = pc /\ pc' \in BootPcs
                /\ npc' = C23_Fetched]_vars
\* execute was called on the built hart and returned, the hart was then set
\* Running and has fetched its first instruction at the boot pc.
C23_Witness ==
    /\ phase = "ret"
    /\ cycle = 1
    /\ inst.op = "FENCE"
    /\ pc \in BootPcs
    /\ npc = pc + 4
    /\ cur_priv = Machine

\* C24: the hart loop's own arithmetic never aborts: the fetch step's
\* npc = pc + 4 and the cycle and instret increments are computed modulo
\* 2^64, so fetching at pc = 2^64 - 4 yields npc = 0 and a counter at
\* 2^64 - 1 wraps to 0 instead of panicking.
C24_ArithmeticNeverPanics ==
    /\ [](phase # "panic")
    /\ [][/\ (CanFetch /\ npc = -4) => phase' = "ret" /\ pc' = -4 /\ npc' = 0
          /\ (CanFetch /\ cycle = -1) => cycle' = 0
          /\ (phase = "upd" /\ instret = -1) => instret' = 0]_vars
\* The hart has fetched at 2^64 - 4 and executed the instruction there.
C24_Witness ==
    /\ phase = "ret"
    /\ exe_ret.tag = "Ok"
    /\ pc = -4
    /\ npc = 0

\* C25: when mip & mie = 0, or when no pending-and-enabled interrupt is
\* deliverable under the enable rule, handle_interrupt changes nothing: npc,
\* the privilege, mstatus, mepc/sepc and mcause/scause are all unchanged.
C25_MachineDeliverable ==
    /\ (xip \cap xie) \ mideleg # {}
    /\ cur_priv < Machine \/ (cur_priv = Machine /\ xstatus.mie)
C25_SupervisorDeliverable ==
    /\ (xip \cap xie) \cap mideleg # {}
    /\ cur_priv < Supervisor \/ (cur_priv = Supervisor /\ xstatus.sie)
C25_NothingDeliverable ==
    \/ xip \cap xie = {}
    \/ ~C25_MachineDeliverable /\ ~C25_SupervisorDeliverable
C25_NoInterruptNoChange ==
    [][(InterruptCheck /\ C25_NothingDeliverable) =>
          /\ int_taken' = "none"
          /\ UNCHANGED <<npc, cur_priv, xstatus, mepc, sepc, mcause, scause,
                         mtval, stval, pc, gpr>>]_vars
\* handle_interrupt has run with the Machine timer interrupt pending and
\* enabled in mie, in Machine mode with MIE = 0, and took nothing.
C25_Witness ==
    /\ phase = "upd"
    /\ int_taken = "none"
    /\ MachineTimerInt \in xip \cap xie
    /\ cur_priv = Machine
    /\ ~xstatus.mie
    /\ npc = pc + 4

\* C26: trap entry never lowers the privilege level: for every exception
\* delivered by handle_exceptions and every interrupt delivered by
\* handle_interrupt the privilege after entry is greater than or equal to
\* the privilege before it (a trap from Machine mode is never taken into
\* Supervisor mode).
C26_TrapNeverLowersPrivilege ==
    [][(ExceptionEntry \/ InterruptEntry) =>
          /\ cur_priv' >= cur_priv
          /\ cur_priv' \in {Supervisor, Machine}
          /\ cur_priv = Machine => cur_priv' = Machine]_vars
\* A delegated exception raised in Supervisor mode has been taken into
\* Supervisor mode.
C26_Witness ==
    /\ phase = "loop"
    /\ exe_ret.tag = "Err"
    /\ exe_ret.trap.num \in medeleg
    /\ cur_priv = Supervisor
    /\ xstatus.spp = 1
    /\ ~scause.interrupt
    /\ sepc = pc
    /\ iter > 0

\* C27: trap entry touches only the target mode's state: a trap into
\* Supervisor leaves mepc, mcause, mtval and mstatus.MPP/MPIE/MIE unchanged,
\* a trap into Machine leaves sepc, scause, stval and mstatus.SPP/SPIE/SIE
\* unchanged, neither changes any GPR or pc, and an interrupt entry (unlike
\* an exception entry) leaves mtval/stval at their previous values.
C27_IntoSupervisor ==
    \/ ExceptionEntry /\ cur_priv' = Supervisor
    \/ InterruptEntry /\ int_taken' = "S"
C27_IntoMachine ==
    \/ ExceptionEntry /\ cur_priv' = Machine
    \/ InterruptEntry /\ int_taken' = "M"
C27_TrapEntryFrame ==
    [][/\ C27_IntoSupervisor =>
             /\ UNCHANGED <<mepc, mcause, mtval>>
             /\ xstatus'.mpp = xstatus.mpp
             /\ xstatus'.mpie = xstatus.mpie
             /\ xstatus'.mie = xstatus.mie
       /\ C27_IntoMachine =>
             /\ UNCHANGED <<sepc, scause, stval>>
             /\ xstatus'.spp = xstatus.spp
             /\ xstatus'.spie = xstatus.spie
             /\ xstatus'.sie = xstatus.sie
       /\ (C27_IntoSupervisor \/ C27_IntoMachine) => UNCHANGED <<gpr, pc>>
       /\ InterruptEntry => UNCHANGED <<mtval, stval>>]_vars
\* An exception has been taken into Supervisor after an earlier trap into
\* Machine: mepc, mcause and mtval still hold what that trap wrote.
C27_Witness ==
    /\ phase = "loop"
    /\ exe_ret.tag = "Err"
    /\ cur_priv = Supervisor
    /\ scause = [interrupt |-> FALSE, code |-> EnvironmentCallFromMMode]
    /\ mcause = [interrupt |-> FALSE, code |-> InstructionAccessFault]
    /\ mepc = 4096
    /\ mtval = 4096
    /\ sepc # mepc

C29_BetweenReadAndClear == bus_lock = <<HartId>> /\ host_data # <<>>
C29_ReadAndClearUnderOneLock ==
    /\ [](C29_BetweenReadAndClear => tohost = host_data[1])
    /\ [][/\ bus_lock = <<HartId>> => thr' = thr
          /\ (bus_lock = <<HartId>> /\ host_data = <<>>) =>
                host_data' = <<tohost>> /\ bus_lock' = bus_lock
                                        /\ tohost' = tohost
          /\ C29_BetweenReadAndClear =>
                /\ host_data[1] = tohost
                /\ tohost' = TohostZero
                /\ bus_lock' = <<>>
                /\ cpu_state' = to_host_state(host_data[1])]_vars
\* check_to_host has read an exit request and holds the bus while the other
\* hart is at its next store to tohost.
C29_Witness ==
    /\ C29_BetweenReadAndClear
    /\ host_data[1] = [hi |-> 0, lo |-> 3]
    /\ HartAt(1, "SD_TOHOST")
    /\ HartInst(1).data = [hi |-> 0, lo |-> 1]

====
